---- MODULE Spec2Model ----
(***************************************************************************)
(* A model of the product-scraper repository:                              *)
(*   - one run of a browser-driving program (the Flipkart, Gopal, Jiomart  *)
(*     and Zepto scrapers' scrape_category, and GoogleSearch.search),      *)
(*   - the FastAPI CRUD endpoints of DatabseAPI.py over MySQLDB,           *)
(*   - process_image_async of the barcode scanner (main.py),               *)
(*   - _safe_get of the browser-driving programs,                          *)
(*   - the scan history of the barcode scanner API (main.py),              *)
(*   - _load_all_products of the scrapers,                                 *)
(*   - the images field of a record, from the scraper to POST /images,     *)
(*   - get_mass_measurement_unit of the scrapers.                          *)
(***************************************************************************)
EXTENDS Integers, Sequences, FiniteSets, TLC

(***************************************************************************)
(* Bounds of the model.                                                    *)
(***************************************************************************)
MaxUrls == 2
MaxRows == 2
MaxRegions == 2
MaxBarcodes == 2
MaxScans == 3       \* scan requests served by the scanner API
MaxHistory == 1     \* entries scan_history keeps (1000 in add_to_history)
MaxHeights == 3     \* distinct values of document.body.scrollHeight
MaxImages == 2      \* image URLs of one product
MaxUnitLen == 3     \* characters of a unit text built from UnitAlphabet

(***************************************************************************)
(* Program constants.                                                      *)
(***************************************************************************)
MAX_RETRIES == 3
SCROLL_PAUSE_TIME == 4
GopalVariants == 4
max_retries == 5
retry_delay == 5

Scrapers == {"Flipkart", "Gopal", "Jiomart", "Zepto"}
Programs == Scrapers \cup {"GoogleSearch"}

VARIABLES
  program,          \* which program this run executes
  pc,               \* position of the run
  driver,           \* self.driver: "None", "open" or "quit"
  browsers_open,    \* browser instances of this run that are open
  browsers_created, \* browser instances this run has created
  product_urls,     \* the list returned by get_product_urls
  i,                \* index of the for loop over product_urls (1-based)
  attempt,          \* attempt of get_product_details' loop (0-based; 0 outside a call)
  sg_attempt,       \* attempt of _safe_get's loop (0-based; 0 outside a call)
  failures,         \* failed attempts of the running get_product_details call
  product_data,     \* value returned by get_product_details (a sequence of records)
  j,                \* index of the record being posted (1-based)
  loads,            \* per URL: driver.get calls made for it
  handed,           \* URLs handed to get_product_details
  returned,         \* per URL: failed attempts when get_product_details returned, -1 before
  scraped,          \* per URL: records get_product_details returned
  posts,            \* per URL: POSTs to the insert endpoint
  slept,            \* the last retry sleep of the running call
  aborted,          \* an exception reached scrape_category's handler
  gs_attempt,       \* GoogleSearch.search: attempt (1-based)
  gs_result         \* GoogleSearch.search: "none", "url" or "raised"

runVars == <<program, pc, driver, browsers_open, browsers_created, product_urls, i,
             attempt, sg_attempt, failures, product_data, j, loads, handed, returned,
             scraped, posts, slept, aborted, gs_attempt, gs_result>>

VARIABLES
  rows,             \* table scrapped_data: id -> record
  next_id,          \* the table's AUTO_INCREMENT counter
  response          \* the last HTTP response of the database API

dbVars == <<rows, next_id, response>>

VARIABLES
  image,            \* the image handed to process_image_async
  cached_models,    \* the keys of main.cached_models
  result_dl,        \* what process_image_async(use_deep_learning=True) returned
  result_trad       \* what process_image_async(use_deep_learning=False) returned

scanVars == <<image, cached_models, result_dl, result_trad>>

VARIABLES
  sg_program,       \* the scraper whose _safe_get is called on its own
  sg_url,           \* the url argument of the call
  current_url,      \* the page the browser shows (0: some other page)
  sg_try,           \* attempt of the call's retry loop
  sg_pc,            \* position in the call
  sg_got,           \* driver.get(url) was invoked on the current attempt
  sg_result         \* what the call returned

navVars == <<sg_program, sg_url, current_url, sg_try, sg_pc, sg_got, sg_result>>

VARIABLES
  scan_history,     \* scan_id -> [result, timestamp]
  now,              \* the clock datetime.now() reads
  task,             \* scan_id -> position of its request and add_to_history call
  task_result,      \* scan_id -> the result the request computed
  timestamp,        \* scan_id -> the timestamp its add_to_history call took
  iterating,        \* scan_id -> the keys min() of its call began to iterate
  oldest_key,       \* scan_id -> oldest_key of its call (0: not assigned)
  scan_response     \* answer to the last GET /scan/{scan_id} or refused request

histVars == <<scan_history, now, task, task_result, timestamp, iterating,
              oldest_key, scan_response>>

VARIABLES
  load_program,     \* the scraper whose _load_all_products is called on its own
  last_height,      \* last_height of the call
  retries,          \* retries of the call
  load_pc,          \* position in the call
  load_error        \* the loop was left by the break of its except clause

loadVars == <<load_program, last_height, retries, load_pc, load_error>>

VARIABLES
  img_program,      \* the scraper that builds the record
  image_urls,       \* the image URLs it found on the product page
  img_field,        \* the images field of the record it posts
  img_column,       \* the images column of the created row
  main_images,      \* main_images of the answer of POST /images
  img_pc            \* how far the record has come

imgVars == <<img_program, image_urls, img_field, img_column, main_images, img_pc>>

VARIABLES
  unit,             \* the argument of get_mass_measurement_unit (its characters)
  unit_result,      \* what the call returned
  unit_pc           \* "call" before the call, "returned" after it

unitVars == <<unit, unit_result, unit_pc>>

vars == <<runVars, dbVars, scanVars, navVars, histVars, loadVars, imgVars, unitVars>>

exceptRun == <<dbVars, scanVars, navVars, histVars, loadVars, imgVars, unitVars>>
exceptDB == <<runVars, scanVars, navVars, histVars, loadVars, imgVars, unitVars>>
exceptScan == <<runVars, dbVars, navVars, histVars, loadVars, imgVars, unitVars>>
exceptNav == <<runVars, dbVars, scanVars, histVars, loadVars, imgVars, unitVars>>
exceptHist == <<runVars, dbVars, scanVars, navVars, loadVars, imgVars, unitVars>>
exceptLoad == <<runVars, dbVars, scanVars, navVars, histVars, imgVars, unitVars>>
exceptImg == <<runVars, dbVars, scanVars, navVars, histVars, loadVars, unitVars>>
exceptUnit == <<runVars, dbVars, scanVars, navVars, histVars, loadVars, imgVars>>

Urls == 1..MaxUrls

NoSleep == [loop |-> "none", n |-> 0, dur |-> 0]

RetryRangeOneMore == 0..MAX_RETRIES

(***************************************************************************)
(* for attempt in range(self.MAX_RETRIES)                                  *)
(***************************************************************************)
RetryRange == 0..(MAX_RETRIES - 1)

(***************************************************************************)
(* if attempt == self.MAX_RETRIES - 1: return ...                          *)
(***************************************************************************)
LastAttempt(a) == a = MAX_RETRIES - 1

Pow2(n) == IF n = 0 THEN 1 ELSE IF n = 1 THEN 2 ELSE IF n = 2 THEN 4 ELSE 8

(***************************************************************************)
(* The random draws of the sleeps: none in Flipkart and Gopal,             *)
(* random.uniform(1, 3) in Jiomart (its integer points),                   *)
(* random.randint(2, 4) in Zepto.                                          *)
(***************************************************************************)
SafeGetRandom(p) ==
  CASE p = "Jiomart" -> 1..3
    [] p = "Zepto" -> 2..4
    [] OTHER -> {0}

SafeGetSleepFixed(p, a, r) == SCROLL_PAUSE_TIME

(***************************************************************************)
(* The sleep of _safe_get after failed attempt a (0-based), r the draw.    *)
(***************************************************************************)
SafeGetSleep(p, a, r) ==
  CASE p = "Jiomart" -> Pow2(a) + r
    [] p = "Zepto" -> r
    [] OTHER -> SCROLL_PAUSE_TIME * (a + 1)

(***************************************************************************)
(* random.randint(2, 5) in get_product_details of Jiomart and Zepto.       *)
(***************************************************************************)
DetailsRandom(p) ==
  IF p \in {"Jiomart", "Zepto"} THEN 2..5 ELSE {0}

DetailsSleep(p, a, r) ==
  IF p \in {"Jiomart", "Zepto"} THEN r ELSE SCROLL_PAUSE_TIME * (a + 1)


(***************************************************************************)
(* init_driver. Outcomes of the environment: "ok"; "no_browser"            *)
(* (webdriver.Chrome raised WebDriverException); "half" (the browser was   *)
(* started and set_page_load_timeout raised WebDriverException).           *)
(* Result: self.driver afterwards, browsers started, and whether the       *)
(* caller sees a truthy value.                                             *)
(***************************************************************************)
InitOutcomes == {"ok", "no_browser", "half"}

InitDriverResult(p, outcome) ==
  CASE outcome = "ok" -> [driver |-> "open", started |-> 1, truthy |-> TRUE]
    [] outcome = "no_browser" -> [driver |-> "None", started |-> 0, truthy |-> FALSE]
    [] outcome = "half" ->
         CASE p = "Flipkart" -> [driver |-> "None", started |-> 1, truthy |-> FALSE]
           [] p = "Zepto" -> [driver |-> "open", started |-> 1, truthy |-> TRUE]
           [] OTHER -> [driver |-> "open", started |-> 1, truthy |-> FALSE]

(***************************************************************************)
(* scrape_category up to the call of get_product_urls. Jiomart returns     *)
(* before its try block when init_driver fails; the others raise inside    *)
(* the try block and reach the finally clause.                             *)
(***************************************************************************)
InitDriver ==
  /\ pc = "start"
  /\ \E outcome \in InitOutcomes :
       LET r == InitDriverResult(program, outcome) IN
         /\ driver' = r.driver
         /\ browsers_open' = browsers_open + r.started
         /\ browsers_created' = browsers_created + r.started
         /\ IF r.truthy
              THEN pc' = "get_urls" /\ aborted' = aborted
              ELSE IF program = "Jiomart"
                     THEN pc' = "done" /\ aborted' = aborted
                     ELSE pc' = "finally" /\ aborted' = TRUE
  /\ UNCHANGED <<program, product_urls, i, attempt, sg_attempt, failures, product_data,
                 j, loads, handed, returned, scraped, posts, slept, gs_attempt, gs_result>>
  /\ UNCHANGED exceptRun

(***************************************************************************)
(* get_product_urls (and Jiomart's _perform_warmup_and_get before it):     *)
(* returns a list of n distinct URLs (built from a set), or raises.        *)
(* An empty list ends the run through the finally clause.                  *)
(***************************************************************************)
GetProductUrls ==
  /\ pc = "get_urls"
  /\ \/ \E n \in 0..MaxUrls :
          /\ product_urls' = [k \in 1..n |-> k]
          /\ i' = 1
          /\ pc' = IF n = 0 THEN "finally" ELSE "loop"
          /\ aborted' = aborted
     \/ /\ aborted' = TRUE
        /\ pc' = "finally"
        /\ UNCHANGED <<product_urls, i>>
  /\ UNCHANGED <<program, driver, browsers_open, browsers_created, attempt, sg_attempt,
                 failures, product_data, j, loads, handed, returned, scraped, posts,
                 slept, gs_attempt, gs_result>>
  /\ UNCHANGED exceptRun

url == product_urls[i]

(***************************************************************************)
(* for url in product_urls: product_data = self.get_product_details(url)   *)
(* The loop header: the next URL is handed to get_product_details, or the  *)
(* loop is over.                                                           *)
(***************************************************************************)
NextUrl ==
  /\ pc = "loop"
  /\ IF i > Len(product_urls)
       THEN /\ pc' = "finally"
            /\ UNCHANGED <<handed, attempt, sg_attempt, failures, product_data, slept>>
       ELSE /\ pc' = "safe_get"
            /\ handed' = handed \cup {url}
            /\ attempt' = 0
            /\ sg_attempt' = 0
            /\ failures' = 0
            /\ product_data' = <<>>
            /\ slept' = NoSleep
  /\ UNCHANGED <<program, driver, browsers_open, browsers_created, product_urls, i, j,
                 loads, returned, scraped, posts, aborted, gs_attempt, gs_result>>
  /\ UNCHANGED exceptRun

(***************************************************************************)
(* get_product_details returns r after fl failed attempts; the caller      *)
(* tests `if product_data:`, and with an empty result logs, sleeps and     *)
(* goes to the next URL.                                                   *)
(***************************************************************************)
ReturnDetails(r, fl) ==
  /\ product_data' = r
  /\ failures' = 0
  /\ attempt' = 0
  /\ sg_attempt' = 0
  /\ returned' = [returned EXCEPT ![url] = fl]
  /\ scraped' = [scraped EXCEPT ![url] = Len(r)]
  /\ IF r = <<>>
       THEN pc' = "loop" /\ i' = i + 1 /\ j' = 0
       ELSE pc' = "post" /\ i' = i /\ j' = 1
  /\ slept' = NoSleep

FailureResultPartial(p, pd) ==
  <<[product_url |-> 0, variant |-> 1, status |-> "raw"]>>

(***************************************************************************)
(* What get_product_details returns from its failure paths: {} in          *)
(* Flipkart, Jiomart and Zepto; the accumulated product_data list in Gopal.*)
(***************************************************************************)
FailureResult(p, pd) == IF p = "Gopal" THEN pd ELSE <<>>

(***************************************************************************)
(* `if not self._safe_get(url): continue`: the next attempt without a      *)
(* sleep, or the end of the loop and the final return.                     *)
(***************************************************************************)
SafeGetFailed ==
  IF attempt + 1 \in RetryRange
    THEN /\ attempt' = attempt + 1
         /\ sg_attempt' = 0
         /\ failures' = failures + 1
         /\ pc' = "safe_get"
         /\ UNCHANGED <<product_data, returned, scraped, i, j, slept>>
    ELSE ReturnDetails(FailureResult(program, product_data), failures + 1)

(***************************************************************************)
(* except Exception in get_product_details: return on the last attempt,    *)
(* otherwise sleep and try again.                                          *)
(***************************************************************************)
AttemptRaised ==
  IF LastAttempt(attempt) \/ attempt + 1 \notin RetryRange
    THEN ReturnDetails(FailureResult(program, product_data), failures + 1)
    ELSE \E r \in DetailsRandom(program) :
           /\ slept' = [loop |-> "details", n |-> attempt + 1,
                        dur |-> DetailsSleep(program, attempt, r)]
           /\ attempt' = attempt + 1
           /\ sg_attempt' = 0
           /\ failures' = failures + 1
           /\ pc' = "safe_get"
           /\ UNCHANGED <<product_data, returned, scraped, i, j>>

(***************************************************************************)
(* One iteration of _safe_get's loop: driver.get(url), which succeeds,     *)
(* raises TimeoutException or WebDriverException (both handled in          *)
(* _safe_get), or raises another exception (handled by the caller).        *)
(***************************************************************************)
GetOutcomes == {"ok", "timeout", "wde", "other"}

DriverGet ==
  /\ pc = "safe_get"
  /\ loads' = [loads EXCEPT ![url] = @ + 1]
  /\ \E outcome \in GetOutcomes :
       CASE outcome = "ok" ->
              /\ pc' = "extract"
              /\ UNCHANGED <<attempt, sg_attempt, failures, product_data, returned,
                             scraped, i, j, slept>>
         [] outcome \in {"timeout", "wde"} ->
              IF LastAttempt(sg_attempt) \/ sg_attempt + 1 \notin RetryRange
                THEN SafeGetFailed
                ELSE \E r \in SafeGetRandom(program) :
                       /\ slept' = [loop |-> "safe_get", n |-> sg_attempt + 1,
                                    dur |-> SafeGetSleep(program, sg_attempt, r)]
                       /\ sg_attempt' = sg_attempt + 1
                       /\ pc' = "safe_get"
                       /\ UNCHANGED <<attempt, failures, product_data, returned,
                                      scraped, i, j>>
         [] outcome = "other" -> AttemptRaised
  /\ UNCHANGED <<program, driver, browsers_open, browsers_created, product_urls, handed,
                 posts, aborted, gs_attempt, gs_result>>
  /\ UNCHANGED exceptRun


(***************************************************************************)
(* The records one successful extraction yields for URL u: one product     *)
(* dict (Flipkart, Jiomart, Zepto), or in Gopal one dict per weight        *)
(* variant, k of them (for i in range(1, 5), ended early by a missing or   *)
(* unclickable modal_weight_i). Every record carries status "raw".         *)
(***************************************************************************)
VariantCounts(p) == IF p = "Gopal" THEN 1..GopalVariants ELSE {1}

ScrapedRecords(p, u, k) ==
  [v \in 1..k |-> [product_url |-> u, variant |-> v, status |-> "raw"]]

(***************************************************************************)
(* The body of get_product_details' try block after _safe_get succeeded:   *)
(* page_source and the parsing either raise (before anything is appended   *)
(* to product_data) or yield the records, which are returned.              *)
(***************************************************************************)
ExtractDetails ==
  /\ pc = "extract"
  /\ \/ \E k \in VariantCounts(program) :
          ReturnDetails(product_data \o ScrapedRecords(program, url, k), failures)
     \/ AttemptRaised
  /\ UNCHANGED <<program, driver, browsers_open, browsers_created, product_urls, loads,
                 handed, posts, aborted, gs_attempt, gs_result>>
  /\ UNCHANGED exceptRun

(***************************************************************************)
(* Outcomes of requests.post to the insert endpoint: status 200 with a     *)
(* JSON body, another status with a JSON body, either with a body that is  *)
(* not JSON, or no response at all (ConnectionError).                      *)
(***************************************************************************)
PostOutcomes == {"ok_json", "err_json", "ok_nonjson", "err_nonjson", "conn_error"}

(***************************************************************************)
(* Whether the outcome raises out of the for loop. Flipkart, Gopal and     *)
(* Zepto call requests.post and response.json() unguarded; Jiomart's       *)
(* _send_to_api catches requests.exceptions.RequestException (which        *)
(* response.json()'s JSONDecodeError is) and reads response.text otherwise.*)
(***************************************************************************)
PostRaises(p, outcome) ==
  /\ p # "Jiomart"
  /\ outcome \in {"ok_nonjson", "err_nonjson", "conn_error"}

MoreToPostInclusive(k, pd) == k <= Len(pd)

(***************************************************************************)
(* for data in product_data (Gopal): whether a record follows the k-th.    *)
(* The other scrapers post the one returned dict.                          *)
(***************************************************************************)
MoreToPost(k, pd) == k < Len(pd)

(***************************************************************************)
(* The records a scraper posts for one URL: Gopal posts each element of    *)
(* the returned list, the others post the returned dict once.              *)
(***************************************************************************)
PostInsert ==
  /\ pc = "post"
  /\ posts' = [posts EXCEPT ![url] = @ + 1]
  /\ \E outcome \in PostOutcomes :
       IF PostRaises(program, outcome)
         THEN /\ aborted' = TRUE
              /\ pc' = "finally"
              /\ UNCHANGED <<i, j>>
         ELSE /\ aborted' = aborted
              /\ IF MoreToPost(j, product_data)
                   THEN j' = j + 1 /\ i' = i /\ pc' = "post"
                   ELSE j' = 0 /\ i' = i + 1 /\ pc' = "loop"
  /\ UNCHANGED <<program, driver, browsers_open, browsers_created, product_urls, attempt,
                 sg_attempt, failures, product_data, loads, handed, returned, scraped,
                 slept, gs_attempt, gs_result>>
  /\ UNCHANGED exceptRun

(***************************************************************************)
(* finally: if self.driver: self.driver.quit()                             *)
(***************************************************************************)
Cleanup ==
  /\ pc = "finally"
  /\ pc' = "done"
  /\ IF driver = "open"
       THEN driver' = "quit" /\ browsers_open' = browsers_open - 1
       ELSE UNCHANGED <<driver, browsers_open>>
  /\ UNCHANGED <<program, browsers_created, product_urls, i, attempt, sg_attempt,
                 failures, product_data, j, loads, handed, returned, scraped, posts,
                 slept, aborted, gs_attempt, gs_result>>
  /\ UNCHANGED exceptRun


(***************************************************************************)
(* GoogleSearch.search, the except clause of one attempt: "Max retries     *)
(* reached" on the last attempt, otherwise time.sleep(self.retry_delay).   *)
(***************************************************************************)
SearchExcept ==
  IF gs_attempt = max_retries
    THEN slept' = slept
    ELSE slept' = [loop |-> "search", n |-> gs_attempt, dur |-> retry_delay]

(***************************************************************************)
(* GoogleSearch.search: the start of an attempt, initialize_driver. A      *)
(* failure raises WebDriverException into the attempt's except clause.     *)
(***************************************************************************)
SearchInitDriver ==
  /\ pc = "gs_init"
  /\ \/ /\ driver' = "open"
        /\ browsers_open' = browsers_open + 1
        /\ browsers_created' = browsers_created + 1
        /\ pc' = "gs_body"
        /\ slept' = slept
     \/ /\ SearchExcept
        /\ pc' = "gs_finally"
        /\ UNCHANGED <<driver, browsers_open, browsers_created>>
  /\ UNCHANGED <<program, product_urls, i, attempt, sg_attempt, failures, product_data,
                 j, loads, handed, returned, scraped, posts, aborted, gs_attempt,
                 gs_result>>
  /\ UNCHANGED exceptRun

(***************************************************************************)
(* GoogleSearch.search: the rest of the try block. The target URL is       *)
(* found and returned, is not found, or a step raises.                     *)
(***************************************************************************)
SearchBody ==
  /\ pc = "gs_body"
  /\ pc' = "gs_finally"
  /\ \/ gs_result' = "url" /\ slept' = slept
     \/ gs_result' = gs_result /\ slept' = slept
     \/ gs_result' = gs_result /\ SearchExcept
  /\ UNCHANGED <<program, driver, browsers_open, browsers_created, product_urls, i,
                 attempt, sg_attempt, failures, product_data, j, loads, handed, returned,
                 scraped, posts, aborted, gs_attempt>>
  /\ UNCHANGED exceptRun

SearchQuitsOnlyOnSuccess(d) == d = "open" /\ gs_result = "url"

(***************************************************************************)
(* Whether the finally clause of GoogleSearch.search quits the browser:    *)
(* if self.driver: self.driver.quit(); self.driver = None                  *)
(***************************************************************************)
SearchQuits(d) == d = "open"

(***************************************************************************)
(* GoogleSearch.search: the finally clause of an attempt, then the return  *)
(* of the URL, the next attempt, or the return of None after the loop.     *)
(***************************************************************************)
SearchFinally ==
  /\ pc = "gs_finally"
  /\ IF SearchQuits(driver)
       THEN driver' = "None" /\ browsers_open' = browsers_open - 1
       ELSE UNCHANGED <<driver, browsers_open>>
  /\ IF gs_result = "url" \/ gs_attempt = max_retries
       THEN pc' = "done" /\ gs_attempt' = gs_attempt
       ELSE pc' = "gs_init" /\ gs_attempt' = gs_attempt + 1
  /\ UNCHANGED <<program, browsers_created, product_urls, i, attempt, sg_attempt,
                 failures, product_data, j, loads, handed, returned, scraped, posts,
                 slept, aborted, gs_result>>
  /\ UNCHANGED exceptRun

(***************************************************************************)
(* The state after construction (__init__): self.driver = None.            *)
(***************************************************************************)
RunInit ==
  /\ program \in Programs
  /\ pc = IF program = "GoogleSearch" THEN "gs_init" ELSE "start"
  /\ driver = "None"
  /\ browsers_open = 0
  /\ browsers_created = 0
  /\ product_urls = <<>>
  /\ i = 0
  /\ attempt = 0
  /\ sg_attempt = 0
  /\ failures = 0
  /\ product_data = <<>>
  /\ j = 0
  /\ loads = [u \in Urls |-> 0]
  /\ handed = {}
  /\ returned = [u \in Urls |-> -1]
  /\ scraped = [u \in Urls |-> 0]
  /\ posts = [u \in Urls |-> 0]
  /\ slept = NoSleep
  /\ aborted = FALSE
  /\ gs_attempt = 1
  /\ gs_result = "none"

RunNext ==
  \/ InitDriver
  \/ GetProductUrls
  \/ NextUrl
  \/ DriverGet
  \/ ExtractDetails
  \/ PostInsert
  \/ Cleanup
  \/ SearchInitDriver
  \/ SearchBody
  \/ SearchFinally

DBIdle ==
  /\ rows = <<>>
  /\ next_id = 1
  /\ response = [endpoint |-> "none", code |-> 0, body |-> <<>>]

NoImage == [load |-> "no_input", regions |-> <<>>, basic |-> <<>>, advanced |-> <<>>]

NoResult == [status |-> "none"]

ScanIdle ==
  /\ image = NoImage
  /\ cached_models = {}
  /\ result_dl = NoResult
  /\ result_trad = NoResult

NavIdle ==
  /\ sg_program = "none"
  /\ sg_url = 0
  /\ current_url = 0
  /\ sg_try = 0
  /\ sg_pc = "idle"
  /\ sg_got = FALSE
  /\ sg_result = "none"

ScanIds == 1..MaxScans

HistIdle ==
  /\ scan_history = <<>>
  /\ now = 1
  /\ task = [s \in ScanIds |-> "idle"]
  /\ task_result = [s \in ScanIds |-> "none"]
  /\ timestamp = [s \in ScanIds |-> 0]
  /\ iterating = [s \in ScanIds |-> {}]
  /\ oldest_key = [s \in ScanIds |-> 0]
  /\ scan_response = [code |-> 0]

LoadIdle ==
  /\ load_program = "none"
  /\ last_height = 0
  /\ retries = 0
  /\ load_pc = "idle"
  /\ load_error = FALSE

ImgIdle ==
  /\ img_program = "none"
  /\ image_urls = <<>>
  /\ img_field = [type |-> "None"]
  /\ img_column = [type |-> "None"]
  /\ main_images = <<>>
  /\ img_pc = "idle"

UnitIdle ==
  /\ unit = <<>>
  /\ unit_result = "none"
  /\ unit_pc = "idle"

Init ==
  RunInit /\ DBIdle /\ ScanIdle /\ NavIdle /\ HistIdle /\ LoadIdle /\ ImgIdle /\ UnitIdle

Next == RunNext

Spec == Init /\ [][Next]_vars


(***************************************************************************)
(* The database API (DatabseAPI.py) over MySQLDB (mysql_db.py).            *)
(* A row of scrapped_data is modelled by the columns the endpoints write;  *)
(* a column an INSERT does not name is NULL, and the two flags the queries *)
(* of /barcodeids compare with 0 are 0.                                    *)
(***************************************************************************)
NULL == "NULL"

Fields == {"barcode", "barcode_exists", "brand_name", "front_img", "back_img",
           "nutrients_img", "ingredients_img", "status", "is_uploaded"}

DefaultRow ==
  [barcode |-> NULL, barcode_exists |-> 0, brand_name |-> NULL, front_img |-> NULL,
   back_img |-> NULL, nutrients_img |-> NULL, ingredients_img |-> NULL,
   status |-> NULL, is_uploaded |-> 0]

(***************************************************************************)
(* choices of ScrappedData.status                                          *)
(***************************************************************************)
StatusChoices == {"raw", "combo", "bundle", "importedToRaw", "archive", "hold",
                  "imageprocessed"}

(***************************************************************************)
(* What the database does with a statement: "ok"; "down" (_connect         *)
(* returns False); "reject" (cursor.execute raises mysql.connector.Error). *)
(***************************************************************************)
DbOutcomes == {"ok", "down", "reject"}

(***************************************************************************)
(* Bodies of POST /insert: not JSON; JSON that is falsy ({}); a JSON list; *)
(* a dict naming a column the table lacks; a dict of columns. The dicts    *)
(* carry a status (the scrapers send "raw", another client anything) or    *)
(* none, and a barcode (Gopal) or none.                                    *)
(***************************************************************************)
InsertColumns ==
  { s @@ b : s \in {<<>>, [status |-> "raw"], [status |-> "done"]},
             b \in {<<>>, [barcode |-> "b1"]} }

InsertBodies ==
  {[kind |-> k, data |-> <<>>] : k \in {"notjson", "empty", "list", "badcolumn"}}
    \cup {[kind |-> "dict", data |-> d] : d \in InsertColumns \ {<<>>}}

(***************************************************************************)
(* MySQLDB.insert_data: the value returned, or raised = TRUE when the      *)
(* call raises: data.items() on a list raises AttributeError, and when     *)
(* _connect fails `return 0` runs the finally clause, whose `if cursor:`   *)
(* reads a local that was never assigned (UnboundLocalError).              *)
(***************************************************************************)
MySQLInsert(body, dbo) ==
  CASE body.kind = "list" -> [raised |-> TRUE, ret |-> 0, stored |-> FALSE]
    [] dbo = "down" -> [raised |-> TRUE, ret |-> 0, stored |-> FALSE]
    [] dbo = "reject" \/ body.kind = "badcolumn" ->
         [raised |-> FALSE, ret |-> 0, stored |-> FALSE]
    [] OTHER -> [raised |-> FALSE, ret |-> next_id, stored |-> TRUE]

InsertedRowStatusRaw(d) ==
  [f \in Fields |-> IF f \in DOMAIN d THEN d[f]
                    ELSE IF f = "status" THEN "raw" ELSE DefaultRow[f]]

(***************************************************************************)
(* The row an INSERT of the columns d creates.                             *)
(***************************************************************************)
InsertedRow(d) == [f \in Fields |-> IF f \in DOMAIN d THEN d[f] ELSE DefaultRow[f]]

Detail(e, c, d) == [endpoint |-> e, code |-> c, body |-> [detail |-> d]]

InsertResponseNoId(id) ==
  [endpoint |-> "/insert", code |-> 200,
   body |-> [message |-> "Data inserted successfully", success |-> TRUE]]

(***************************************************************************)
(* return {"id": inserted_id, "message": ..., "success": True}             *)
(***************************************************************************)
InsertResponse(id) ==
  [endpoint |-> "/insert", code |-> 200,
   body |-> [id |-> id, message |-> "Data inserted successfully", success |-> TRUE]]

(***************************************************************************)
(* POST /insert                                                            *)
(***************************************************************************)
insert_data(body, dbo) ==
  IF body.kind = "notjson"
    THEN /\ response' = Detail("/insert", 400, "Invalid JSON")
         /\ UNCHANGED <<rows, next_id>>
    ELSE IF body.kind = "empty"
      THEN /\ response' = Detail("/insert", 422, "JSON body is required")
           /\ UNCHANGED <<rows, next_id>>
      ELSE LET r == MySQLInsert(body, dbo) IN
             IF r.raised
               THEN /\ response' = Detail("/insert", 400, "Invalid JSON")
                    /\ UNCHANGED <<rows, next_id>>
               ELSE IF r.ret = 0
                 THEN /\ response' =
                           Detail("/insert", 500, "Failed to insert data into the database")
                      /\ UNCHANGED <<rows, next_id>>
                 ELSE /\ rows' = (r.ret :> InsertedRow(body.data)) @@ rows
                      /\ next_id' = next_id + 1
                      /\ response' = InsertResponse(r.ret)

Insert ==
  /\ next_id <= MaxRows
  /\ \E body \in InsertBodies, dbo \in DbOutcomes : insert_data(body, dbo)
  /\ UNCHANGED exceptDB

(***************************************************************************)
(* Requests of the update endpoints.  id is <<n>>, or <<>> when the body   *)
(* leaves it out; fields are the columns the body names.                   *)
(***************************************************************************)
RequestIds == {<<>>} \cup {<<n>> : n \in 1..(MaxRows + 1)}

BarcodeRequests ==
  {[endpoint |-> "/barcode", id |-> n, fields |-> [barcode |-> b]] :
     n \in RequestIds, b \in {"b2"}}

ProductInfoRequests ==
  {[endpoint |-> "/productinfo/update", id |-> n, fields |-> bn @@ bc] :
     n \in RequestIds,
     bn \in {<<>>, [brand_name |-> "n1"]},
     bc \in {<<>>, [barcode |-> ""], [barcode |-> "b2"]}}

ImageRequests ==
  {[endpoint |-> "/image/update", id |-> n,
    fields |-> [front_img |-> g, back_img |-> g, nutrients_img |-> g,
                ingredients_img |-> g]] :
     n \in RequestIds, g \in {"g1"}}

IDRequests == {[endpoint |-> "/added", id |-> n, fields |-> <<>>] : n \in RequestIds}

UpdateRequests == BarcodeRequests \cup ProductInfoRequests \cup ImageRequests \cup IDRequests

(***************************************************************************)
(* The row `WHERE id = {request.id}` selects.  IDRequest, BarcodeRequest   *)
(* and ImageRequest declare id with Field(True, ...): a body without id    *)
(* gives request.id = True, the clause reads "id = True", and MySQL's TRUE *)
(* is 1.                                                                   *)
(***************************************************************************)
WhereId(req) == IF req.id = <<>> THEN 1 ELSE req.id[1]

(***************************************************************************)
(* request.id as the JSON of the response renders it.                     *)
(***************************************************************************)
ResponseId(req) == IF req.id = <<>> THEN "true" ELSE ToString(req.id[1])

(***************************************************************************)
(* MySQLDB.update_data(table, data, "id = ..."): the table afterwards and  *)
(* the value returned (cursor.rowcount > 0: a row matched and a value      *)
(* changed), or raised = TRUE for the UnboundLocalError of the finally     *)
(* clause when _connect fails.                                             *)
(***************************************************************************)
MySQLUpdate(tbl, data, id, dbo) ==
  CASE dbo = "down" -> [raised |-> TRUE, ret |-> FALSE, tbl |-> tbl]
    [] dbo = "reject" -> [raised |-> FALSE, ret |-> FALSE, tbl |-> tbl]
    [] OTHER ->
         IF id \in DOMAIN tbl
           THEN LET new == [f \in Fields |->
                              IF f \in DOMAIN data THEN data[f] ELSE tbl[id][f]]
                IN  [raised |-> FALSE, ret |-> new # tbl[id],
                     tbl |-> [tbl EXCEPT ![id] = new]]
           ELSE [raised |-> FALSE, ret |-> FALSE, tbl |-> tbl]

Truthy(v) == v # ""

BarcodeFieldsResetStatus(req) ==
  [barcode |-> req.fields.barcode, barcode_exists |-> 1, status |-> "raw"]

(***************************************************************************)
(* The column-value pairs each endpoint hands to update_data.              *)
(***************************************************************************)
BarcodeFields(req) == [barcode |-> req.fields.barcode, barcode_exists |-> 1]

ProductInfoFields(req) ==
  (IF "brand_name" \in DOMAIN req.fields /\ Truthy(req.fields.brand_name)
     THEN [brand_name |-> req.fields.brand_name] ELSE <<>>)
  @@
  (IF "barcode" \in DOMAIN req.fields /\ Truthy(req.fields.barcode)
     THEN [barcode |-> req.fields.barcode, barcode_exists |-> 1] ELSE <<>>)

ImageFieldsClearBarcodeFlag(req) ==
  [front_img |-> req.fields.front_img, back_img |-> req.fields.back_img,
   nutrients_img |-> req.fields.nutrients_img,
   ingredients_img |-> req.fields.ingredients_img, status |-> "imageprocessed",
   barcode_exists |-> 0]

ImageFields(req) ==
  [front_img |-> req.fields.front_img, back_img |-> req.fields.back_img,
   nutrients_img |-> req.fields.nutrients_img,
   ingredients_img |-> req.fields.ingredients_img, status |-> "imageprocessed"]

IsUploadedFieldsArchive(req) == [is_uploaded |-> 1, status |-> "archive"]

IsUploadedFields(req) == [is_uploaded |-> 1]

Updated(req, msg, ok) ==
  [endpoint |-> req.endpoint, code |-> 200,
   body |-> [message |-> msg, id |-> ResponseId(req), success |-> ok]]

(***************************************************************************)
(* POST /barcode                                                           *)
(***************************************************************************)
update_barcode(req, dbo) ==
  LET r == MySQLUpdate(rows, BarcodeFields(req), WhereId(req), dbo) IN
    /\ rows' = r.tbl
    /\ response' =
         IF r.raised THEN Detail("/barcode", 400, "Invalid JSON")
         ELSE IF ~r.ret THEN Detail("/barcode", 404, "ID not found")
         ELSE [endpoint |-> "/barcode", code |-> 200,
               body |-> [message |-> "Barcode updated successfully",
                         id |-> ResponseId(req), barcode |-> req.fields.barcode]]
    /\ UNCHANGED next_id

(***************************************************************************)
(* POST /productinfo/update: id is required (Field(...)), so a body        *)
(* without it is answered 422 before the handler runs.                     *)
(***************************************************************************)
update_product_info(req, dbo) ==
  IF req.id = <<>>
    THEN /\ response' = Detail("/productinfo/update", 422, "Field required")
         /\ UNCHANGED <<rows, next_id>>
    ELSE IF DOMAIN ProductInfoFields(req) = {}
      THEN /\ response' =
                Detail("/productinfo/update", 400, "No fields provided for update")
           /\ UNCHANGED <<rows, next_id>>
      ELSE LET r == MySQLUpdate(rows, ProductInfoFields(req), WhereId(req), dbo) IN
             /\ rows' = r.tbl
             /\ response' =
                  IF r.raised THEN Detail("/productinfo/update", 400, "Invalid JSON")
                  ELSE IF ~r.ret
                    THEN Updated(req, "Failed to update product info", FALSE)
                    ELSE Updated(req, "Product info updated successfully", TRUE)
             /\ UNCHANGED next_id

(***************************************************************************)
(* POST /image/update                                                      *)
(***************************************************************************)
update_images(req, dbo) ==
  LET r == MySQLUpdate(rows, ImageFields(req), WhereId(req), dbo) IN
    /\ rows' = r.tbl
    /\ response' =
         IF r.raised THEN Detail("/image/update", 400, "Invalid JSON")
         ELSE IF ~r.ret THEN Updated(req, "Failed to update images", FALSE)
         ELSE Updated(req, "Images updated successfully", TRUE)
    /\ UNCHANGED next_id

(***************************************************************************)
(* GET /added                                                              *)
(***************************************************************************)
get_all_is_uploaded_id(req, dbo) ==
  LET r == MySQLUpdate(rows, IsUploadedFields(req), WhereId(req), dbo) IN
    /\ rows' = r.tbl
    /\ response' =
         IF r.raised THEN Detail("/added", 400, "Database error")
         ELSE IF ~r.ret THEN Updated(req, "Failed to update product info", FALSE)
         ELSE Updated(req, "Product info updated successfully", TRUE)
    /\ UNCHANGED next_id

UpdateBarcode ==
  /\ \E req \in BarcodeRequests, dbo \in DbOutcomes : update_barcode(req, dbo)
  /\ UNCHANGED exceptDB

UpdateProductInfo ==
  /\ \E req \in ProductInfoRequests, dbo \in DbOutcomes : update_product_info(req, dbo)
  /\ UNCHANGED exceptDB

UpdateImages ==
  /\ \E req \in ImageRequests, dbo \in DbOutcomes : update_images(req, dbo)
  /\ UNCHANGED exceptDB

Added ==
  /\ \E req \in IDRequests, dbo \in DbOutcomes : get_all_is_uploaded_id(req, dbo)
  /\ UNCHANGED exceptDB

(***************************************************************************)
(* MySQLDB._execute_query("SELECT ... WHERE id = {id}") and                *)
(* MySQLDB.get_data(table, columns, "id = {id}"): the list of rows         *)
(* returned, or raised = TRUE for the UnboundLocalError of the finally     *)
(* clause when _connect fails.                                             *)
(***************************************************************************)
MySQLExecuteQuery(tbl, id, dbo) ==
  CASE dbo = "down" -> [raised |-> TRUE, ret |-> <<>>]
    [] dbo = "reject" -> [raised |-> FALSE, ret |-> <<>>]
    [] OTHER -> [raised |-> FALSE,
                 ret |-> IF id \in DOMAIN tbl THEN <<tbl[id]>> ELSE <<>>]

MySQLGetData(tbl, id, dbo) == MySQLExecuteQuery(tbl, id, dbo)

(***************************************************************************)
(* The columns POST /data selects, of those modelled.                      *)
(***************************************************************************)
DataColumns == Fields \ {"barcode_exists", "is_uploaded"}

(***************************************************************************)
(* POST /data: reads, changes nothing.                                     *)
(***************************************************************************)
get_all_data(req, dbo) ==
  LET r == MySQLExecuteQuery(rows, WhereId(req), dbo) IN
    /\ response' =
         IF r.raised THEN Detail("/data", 400, "Invalid JSON")
         ELSE IF r.ret = <<>> THEN Detail("/data", 404, "ID not found")
         ELSE [endpoint |-> "/data", code |-> 200,
               body |-> [f \in DataColumns |-> r.ret[1][f]]]
    /\ UNCHANGED <<rows, next_id>>

GetData ==
  /\ \E req \in IDRequests, dbo \in DbOutcomes : get_all_data([req EXCEPT !.endpoint = "/data"], dbo)
  /\ UNCHANGED exceptDB

(***************************************************************************)
(* GET /delete?id=n calls db.delete_data(id).  MySQLDB defines _connect,   *)
(* _disconnect, fetch_scraped_images, get_data, insert_data, update_data   *)
(* and _execute_query and no delete_data, so the call raises               *)
(* AttributeError, which the handler's `except Exception` turns into 400.  *)
(***************************************************************************)
delete_product(id) ==
  /\ response' = Detail("/delete", 400, "Error occurred: no attribute 'delete_data'")
  /\ UNCHANGED <<rows, next_id>>

Delete ==
  /\ \E id \in 1..(MaxRows + 1) : delete_product(id)
  /\ UNCHANGED exceptDB

(***************************************************************************)
(* The API serving requests while no scraper runs.                         *)
(***************************************************************************)
RunIdle ==
  /\ program = "none"
  /\ pc = "idle"
  /\ driver = "None"
  /\ browsers_open = 0
  /\ browsers_created = 0
  /\ product_urls = <<>>
  /\ i = 0
  /\ attempt = 0
  /\ sg_attempt = 0
  /\ failures = 0
  /\ product_data = <<>>
  /\ j = 0
  /\ loads = [u \in Urls |-> 0]
  /\ handed = {}
  /\ returned = [u \in Urls |-> -1]
  /\ scraped = [u \in Urls |-> 0]
  /\ posts = [u \in Urls |-> 0]
  /\ slept = NoSleep
  /\ aborted = FALSE
  /\ gs_attempt = 0
  /\ gs_result = "none"

DBInit ==
  RunIdle /\ DBIdle /\ ScanIdle /\ NavIdle /\ HistIdle /\ LoadIdle /\ ImgIdle /\ UnitIdle

DBNext ==
  \/ Insert
  \/ UpdateBarcode
  \/ UpdateProductInfo
  \/ UpdateImages
  \/ Added
  \/ Delete
  \/ GetData

SpecDB == DBInit /\ [][DBNext]_vars

(***************************************************************************)
(* The barcode scanner (main.py).  An image is what the decoders make of   *)
(* it: how loading it ends, what pyzbar decodes in each contour region     *)
(* that segment_barcode_regions finds (in order; a region stands for the   *)
(* barcode decoded in it, None if there is none), in the grey image        *)
(* (basic) and in the processed versions of it (advanced, in the order of  *)
(* the techniques).                                                        *)
(***************************************************************************)
None == [data |-> "None", type |-> "None"]

Barcodes == {[data |-> "A", type |-> "EAN13"], [data |-> "B", type |-> "QRCODE"]}

SeqsUpTo(S, n) == UNION {[1..k -> S] : k \in 0..n}

Loads == {"no_input", "fetch_raises", "undecodable", "ok"}

Images ==
  {[load |-> l, regions |-> <<>>, basic |-> <<>>, advanced |-> <<>>] :
     l \in Loads \ {"ok"}}
    \cup
  {[load |-> "ok", regions |-> r, basic |-> b, advanced |-> a] :
     r \in SeqsUpTo(Barcodes \cup {None}, MaxRegions),
     b \in SeqsUpTo(Barcodes, MaxBarcodes),
     a \in SeqsUpTo(Barcodes, MaxBarcodes)}

Result(b, method, st, err) ==
  [barcode_data |-> b.data, barcode_type |-> b.type, method_used |-> method,
   status |-> st, error |-> err]

(***************************************************************************)
(* Building the models: BarcodeDetectionModel() loads MobileNetV2 with     *)
(* weights='imagenet' and may raise, as may BarcodeClassifier().           *)
(***************************************************************************)
BuildOutcomes == {"ok", "detector_raises", "classifier_raises"}

ModelsAfter(cached, build) ==
  IF "detector" \notin cached /\ build = "detector_raises" THEN cached
  ELSE IF "classifier" \notin cached /\ build = "classifier_raises"
    THEN cached \cup {"detector"}
    ELSE {"detector", "classifier"}

BuildRaises(cached, build) == ModelsAfter(cached, build) # {"detector", "classifier"}

PredictWholeImage(img) == <<IF img.basic = <<>> THEN None ELSE img.basic[1]>>

(***************************************************************************)
(* BarcodeDetectionModel.predict_barcode_region: return None               *)
(***************************************************************************)
predict_barcode_region(img) == <<>>

(***************************************************************************)
(* segment_barcode_regions: the detector's regions if it gives any, else   *)
(* the contours found by the gradient method.                              *)
(***************************************************************************)
segment_barcode_regions(img, detector_model) ==
  IF detector_model /\ predict_barcode_region(img) # <<>>
    THEN predict_barcode_region(img)
    ELSE img.regions

(***************************************************************************)
(* decode_with_ann: every barcode decoded in a region, in region order,    *)
(* whatever its symbology.                                                 *)
(***************************************************************************)
decode_with_ann(img, regions) ==
  SelectSeq(regions, LAMBDA b : b # None)

(***************************************************************************)
(* barcode.type in ["EAN8", "EAN13", "UPC-A", "UPC-E", "CODE-128",         *)
(* "CODE-39"]                                                              *)
(***************************************************************************)
TraditionalTypes == {"EAN8", "EAN13", "UPC-A", "UPC-E", "CODE-128", "CODE-39"}

FirstAccepted(barcodes) ==
  LET ok == SelectSeq(barcodes, LAMBDA b : b.type \in TraditionalTypes)
  IN  IF ok = <<>> THEN None ELSE ok[1]

(***************************************************************************)
(* The traditional pipeline of process_image_async.                        *)
(***************************************************************************)
Traditional(img) ==
  IF FirstAccepted(img.basic) # None
    THEN Result(FirstAccepted(img.basic), "traditional_basic", "success", "")
  ELSE IF FirstAccepted(img.advanced) # None
    THEN Result(FirstAccepted(img.advanced), "traditional_advanced", "success", "")
  ELSE Result(None, "unknown", "no_barcode_found", "")

(***************************************************************************)
(* process_image_async(image, use_deep_learning) with the models in        *)
(* cached and the outcome build of constructing the missing ones.          *)
(***************************************************************************)
process_image_async(img, use_deep_learning, cached, build) ==
  IF use_deep_learning /\ BuildRaises(cached, build)
    THEN Result(None, "error", "error", "model")
  ELSE IF img.load = "no_input"
    THEN Result(None, "error", "error", "No image data provided")
  ELSE IF img.load = "fetch_raises"
    THEN Result(None, "error", "error", "fetch")
  ELSE IF img.load = "undecodable"
    THEN Result(None, "error", "error", "Failed to decode image")
  ELSE LET results ==
             IF use_deep_learning
               THEN decode_with_ann(img, segment_barcode_regions(img, TRUE))
               ELSE <<>>
       IN  IF results # <<>>
             THEN Result(results[1], "deep_learning", "success", "")
             ELSE Traditional(img)

(***************************************************************************)
(* One call with use_deep_learning = True and one with False, on the same  *)
(* image.                                                                  *)
(***************************************************************************)
ScanDeepLearning ==
  /\ \E build \in BuildOutcomes :
       /\ result_dl' = process_image_async(image, TRUE, cached_models, build)
       /\ cached_models' = ModelsAfter(cached_models, build)
  /\ UNCHANGED <<image, result_trad>>
  /\ UNCHANGED exceptScan

ScanTraditional ==
  /\ result_trad' = process_image_async(image, FALSE, cached_models, "ok")
  /\ UNCHANGED <<image, cached_models, result_dl>>
  /\ UNCHANGED exceptScan

ScanInit ==
  /\ RunIdle
  /\ DBIdle
  /\ NavIdle
  /\ HistIdle
  /\ LoadIdle
  /\ ImgIdle
  /\ UnitIdle
  /\ image \in Images
  /\ cached_models = {}
  /\ result_dl = NoResult
  /\ result_trad = NoResult

ScanNext == ScanDeepLearning \/ ScanTraditional

SpecScan == ScanInit /\ [][ScanNext]_vars

(***************************************************************************)
(* One call of _safe_get(url) on its own, in the scrapers above and in     *)
(* Multi/A-3.py (the Amazon scraper).  The try body of Flipkart, Gopal,    *)
(* Jiomart and Zepto starts with self.driver.get(url); the try body of     *)
(* A-3 has no driver.get and only waits for the <body> of the page the     *)
(* browser already shows.                                                  *)
(***************************************************************************)
SafeGetPrograms == Scrapers \cup {"A-3"}

Navigates(p) == p # "A-3"

(***************************************************************************)
(* _check_for_blocks / _handle_homepage_popups exist in Jiomart and A-3.   *)
(***************************************************************************)
ChecksBlocks(p) == p \in {"Jiomart", "A-3"}

SafeGetOutcomes(p) ==
  {"ok", "timeout", "wde"} \cup (IF ChecksBlocks(p) THEN {"blocked"} ELSE {})

(***************************************************************************)
(* One pass of `for attempt in range(self.MAX_RETRIES)` up to its return   *)
(* or its time.sleep.  A driver.get that raises may or may not have left   *)
(* the old page.                                                           *)
(***************************************************************************)
SafeGetAttempt ==
  /\ sg_pc = "attempt"
  /\ \E outcome \in SafeGetOutcomes(sg_program), page \in {current_url, sg_url} :
       /\ sg_got' = Navigates(sg_program)
       /\ current_url' =
            IF ~Navigates(sg_program) THEN current_url
            ELSE IF outcome \in {"ok", "blocked"} THEN sg_url ELSE page
       /\ IF outcome \in {"ok", "blocked"}
            THEN sg_result' = "True" /\ sg_pc' = "returned"
            ELSE IF LastAttempt(sg_try)
              THEN sg_result' = "False" /\ sg_pc' = "returned"
              ELSE sg_result' = sg_result /\ sg_pc' = "backoff"
  /\ UNCHANGED <<sg_program, sg_url, sg_try>>
  /\ UNCHANGED exceptNav

(***************************************************************************)
(* time.sleep(...) and the next pass of the loop.                          *)
(***************************************************************************)
SafeGetBackoff ==
  /\ sg_pc = "backoff"
  /\ sg_try' = sg_try + 1
  /\ sg_got' = FALSE
  /\ sg_pc' = "attempt"
  /\ UNCHANGED <<sg_program, sg_url, current_url, sg_result>>
  /\ UNCHANGED exceptNav

SafeGetInit ==
  /\ RunIdle
  /\ DBIdle
  /\ ScanIdle
  /\ HistIdle
  /\ LoadIdle
  /\ ImgIdle
  /\ UnitIdle
  /\ sg_program \in SafeGetPrograms
  /\ sg_url \in Urls
  /\ current_url \in {0} \cup Urls
  /\ sg_try = 0
  /\ sg_pc = "attempt"
  /\ sg_got = FALSE
  /\ sg_result = "none"

SafeGetNext == SafeGetAttempt \/ SafeGetBackoff

SpecSafeGet == SafeGetInit /\ [][SafeGetNext]_vars

(***************************************************************************)
(* The scan history of the barcode scanner API (main.py).                  *)
(*                                                                         *)
(* A request to /scan/url or /scan/upload answers with a fresh scan_id and *)
(* leaves add_to_history(scan_id, result) as a background task, which runs *)
(* after the response was sent.  add_to_history is a plain def, so it runs *)
(* in a worker thread, and the calls of overlapping requests interleave    *)
(* between the statements below.                                           *)
(***************************************************************************)
ScanResults == {"success", "error"}

\* str(uuid.uuid4()) gives an id no request had before (ids are taken in
\* order); the result is queued for add_to_history and the response sent.
RespondAndQueue(s, result) ==
  /\ task[s] = "idle"
  /\ \A t \in ScanIds : t < s => task[t] # "idle"
  /\ task' = [task EXCEPT ![s] = "queued"]
  /\ task_result' = [task_result EXCEPT ![s] = result]
  /\ UNCHANGED <<scan_history, now, timestamp, iterating, oldest_key, scan_response>>
  /\ UNCHANGED exceptHist

scan_url(s, result) == RespondAndQueue(s, result)

scan_upload(s, result) == RespondAndQueue(s, result)

\* {**result, "timestamp": datetime.now().isoformat()} is evaluated.
AddTimestamp(s) ==
  /\ task[s] = "queued"
  /\ timestamp' = [timestamp EXCEPT ![s] = now]
  /\ now' = now + 1
  /\ task' = [task EXCEPT ![s] = "store"]
  /\ UNCHANGED <<scan_history, task_result, iterating, oldest_key, scan_response>>
  /\ UNCHANGED exceptHist

\* scan_history[scan_id] = {...}
AddStore(s) ==
  /\ task[s] = "store"
  /\ scan_history' =
       (s :> [result |-> task_result[s], timestamp |-> timestamp[s]]) @@ scan_history
  /\ task' = [task EXCEPT ![s] = "check"]
  /\ UNCHANGED <<now, task_result, timestamp, iterating, oldest_key, scan_response>>
  /\ UNCHANGED exceptHist

\* if len(scan_history) > 1000:
AddCheck(s) ==
  /\ task[s] = "check"
  /\ task' = [task EXCEPT ![s] =
                IF Cardinality(DOMAIN scan_history) > MaxHistory THEN "keys" ELSE "done"]
  /\ UNCHANGED <<scan_history, now, task_result, timestamp, iterating, oldest_key,
                 scan_response>>
  /\ UNCHANGED exceptHist

\* min(scan_history.keys(), ...) starts to iterate over the keys.
AddKeys(s) ==
  /\ task[s] = "keys"
  /\ iterating' = [iterating EXCEPT ![s] = DOMAIN scan_history]
  /\ task' = [task EXCEPT ![s] = "min"]
  /\ UNCHANGED <<scan_history, now, task_result, timestamp, oldest_key, scan_response>>
  /\ UNCHANGED exceptHist

Oldest(h) ==
  CHOOSE k \in DOMAIN h : \A other \in DOMAIN h : h[k].timestamp <= h[other].timestamp

\* min(...) ends.  When another call changed the number of keys meanwhile the
\* iteration raises RuntimeError and the call ends without a pop; when the
\* keys changed and their number did not, it raises or goes through.
AddMin(s) ==
  /\ task[s] = "min"
  /\ \E raises \in
         IF DOMAIN scan_history = iterating[s] THEN {FALSE}
         ELSE IF Cardinality(DOMAIN scan_history) = Cardinality(iterating[s])
           THEN {TRUE, FALSE}
           ELSE {TRUE} :
       IF raises
         THEN /\ task' = [task EXCEPT ![s] = "raised"]
              /\ oldest_key' = oldest_key
         ELSE /\ task' = [task EXCEPT ![s] = "pop"]
              /\ oldest_key' = [oldest_key EXCEPT ![s] = Oldest(scan_history)]
  /\ iterating' = [iterating EXCEPT ![s] = {}]
  /\ UNCHANGED <<scan_history, now, task_result, timestamp, scan_response>>
  /\ UNCHANGED exceptHist

\* scan_history.pop(oldest_key, None)
AddPop(s) ==
  /\ task[s] = "pop"
  /\ scan_history' =
       [k \in DOMAIN scan_history \ {oldest_key[s]} |-> scan_history[k]]
  /\ task' = [task EXCEPT ![s] = "done"]
  /\ UNCHANGED <<now, task_result, timestamp, iterating, oldest_key, scan_response>>
  /\ UNCHANGED exceptHist

add_to_history(s) ==
  \/ AddTimestamp(s)
  \/ AddStore(s)
  \/ AddCheck(s)
  \/ AddKeys(s)
  \/ AddMin(s)
  \/ AddPop(s)

AddToHistory == \E s \in ScanIds : add_to_history(s)

get_scan_result(s) ==
  /\ scan_response' =
       IF s \notin DOMAIN scan_history
         THEN [code |-> 404, scan_id |-> s]
         ELSE [code |-> 200, scan_id |-> s, result |-> scan_history[s].result,
               timestamp |-> scan_history[s].timestamp]
  /\ UNCHANGED <<scan_history, now, task, task_result, timestamp, iterating, oldest_key>>
  /\ UNCHANGED exceptHist

API_KEY == "your-secret-api-key"

\* Values of the X-API-Key header: "None" when the header is not sent
\* (APIKeyHeader with auto_error=False hands None to get_api_key).
ApiKeys == {"None", "wrong-key", API_KEY}

GetApiKeyUnlessWrong(api_key) == api_key # "wrong-key"

\* get_api_key returns (TRUE) or raises HTTPException(403) (FALSE).
get_api_key(api_key) == api_key = API_KEY

Forbidden == [code |-> 403, detail |-> "Invalid API key"]

\* The dependency raised: the endpoint function is not called.
Refuse ==
  /\ scan_response' = Forbidden
  /\ UNCHANGED <<scan_history, now, task, task_result, timestamp, iterating, oldest_key>>
  /\ UNCHANGED exceptHist

\* A route declared with dependencies=[Depends(get_api_key)]: the endpoint
\* function runs only when the dependency returned.
Depends(api_key, endpoint_call) ==
  IF get_api_key(api_key) THEN endpoint_call ELSE Refuse

PostScanUrl == \E s \in ScanIds, result \in ScanResults : scan_url(s, result)

PostScanUpload == \E s \in ScanIds, result \in ScanResults : scan_upload(s, result)

GetScan == \E s \in ScanIds : get_scan_result(s)

ScanUrl == \E api_key \in ApiKeys : Depends(api_key, PostScanUrl)

ScanUpload == \E api_key \in ApiKeys : Depends(api_key, PostScanUpload)

GetScanResult == \E api_key \in ApiKeys : Depends(api_key, GetScan)

HistInit ==
  RunIdle /\ DBIdle /\ ScanIdle /\ NavIdle /\ HistIdle /\ LoadIdle /\ ImgIdle /\ UnitIdle

HistNext == ScanUrl \/ ScanUpload \/ AddToHistory \/ GetScanResult

SpecHistory == HistInit /\ [][HistNext]_vars

(***************************************************************************)
(* _load_all_products, called on its own, from the start of its while     *)
(* loop (last_height was read, retries = 0).                               *)
(***************************************************************************)
MAX_SCROLL_RETRIES(p) == IF p = "Jiomart" THEN 10 ELSE 15

(***************************************************************************)
(* One pass of `while retries < self.MAX_SCROLL_RETRIES`: scroll, sleep,   *)
(* read the new height and compare; any exception breaks the loop         *)
(* (Flipkart also waits for the "load more" button and clicks it, inside   *)
(* the same try block).                                                    *)
(***************************************************************************)
LoadScroll ==
  /\ load_pc = "loop"
  /\ retries < MAX_SCROLL_RETRIES(load_program)
  /\ \E outcome \in {"ok", "error"}, new_height \in 1..MaxHeights :
       IF outcome = "error"
         THEN /\ load_pc' = "done"
              /\ load_error' = TRUE
              /\ UNCHANGED <<last_height, retries>>
         ELSE /\ IF new_height = last_height
                   THEN retries' = retries + 1 /\ last_height' = last_height
                   ELSE retries' = 0 /\ last_height' = new_height
              /\ UNCHANGED <<load_pc, load_error>>
  /\ UNCHANGED load_program
  /\ UNCHANGED exceptLoad

\* The while condition is false: _load_all_products returns.
LoadReturn ==
  /\ load_pc = "loop"
  /\ ~(retries < MAX_SCROLL_RETRIES(load_program))
  /\ load_pc' = "done"
  /\ UNCHANGED <<load_program, last_height, retries, load_error>>
  /\ UNCHANGED exceptLoad

LoadInit ==
  /\ RunIdle
  /\ DBIdle
  /\ ScanIdle
  /\ NavIdle
  /\ HistIdle
  /\ ImgIdle
  /\ UnitIdle
  /\ load_program \in Scrapers
  /\ last_height \in 1..MaxHeights
  /\ retries = 0
  /\ load_pc = "loop"
  /\ load_error = FALSE

LoadNext == LoadScroll \/ LoadReturn

\* The call runs in the scraper's only thread: it goes on while it can.
SpecLoad == LoadInit /\ [][LoadNext]_vars /\ WF_vars(LoadNext)

(***************************************************************************)
(* The images field of one record: built by the scraper, stored by         *)
(* MySQLDB.insert_data, read back by POST /images.                         *)
(*                                                                         *)
(* A value is None, a str ([type |-> "str", text |-> tokens]; "" has no    *)
(* tokens) or a dict with one key ([type |-> "dict", key, value]).  JSON   *)
(* text is the sequence of its tokens.                                     *)
(***************************************************************************)
ImageLists == SeqsUpTo({"g1", "g2", "g3"}, MaxImages)

Punct(c) == [t |-> "punct", v |-> c]

JsonString(x) == [t |-> "string", v |-> x]

Str(tokens) == [type |-> "str", text |-> tokens]

Dict(key, value) == [type |-> "dict", key |-> key, value |-> value]

RECURSIVE JsonArrayItems(_)
JsonArrayItems(L) ==
  IF L = <<>> THEN <<>>
  ELSE IF Len(L) = 1 THEN <<JsonString(L[1])>>
  ELSE <<JsonString(L[1]), Punct(",")>> \o JsonArrayItems(Tail(L))

\* json.dumps of a dict with one key whose value is a list of strings.
json_dumps(d) ==
  <<Punct("{"), JsonString(d.key), Punct(":"), Punct("[")>>
    \o JsonArrayItems(d.value) \o <<Punct("]"), Punct("}")>>

\* The strings among the tokens, in order.
RECURSIVE Values(_)
Values(tokens) ==
  IF tokens = <<>> THEN <<>>
  ELSE IF tokens[1].t = "string" THEN <<tokens[1].v>> \o Values(Tail(tokens))
  ELSE Values(Tail(tokens))

\* json.loads of such a text: the key, and the strings between the brackets.
json_loads(text) ==
  Dict(text[2].v, Values(SubSeq(text, 5, Len(text) - 2)))

ExtractImageUrlsTextSliced(p, L) ==
  IF L = <<>> THEN Str(<<>>) ELSE Str(json_dumps(Dict("image_urls", Tail(L))))

\* extract_image_urls_text of Flipkart and Gopal.
extract_image_urls_text(p, L) ==
  IF L = <<>> THEN Str(<<>>) ELSE Str(json_dumps(Dict("image_urls", L)))

\* The images field of the record the scraper posts to /insert.
ImagesField(p, L) ==
  IF p \in {"Flipkart", "Gopal"}
    THEN extract_image_urls_text(p, L)
    ELSE Dict("image_urls", L)

\* MySQLDB.insert_data: "Convert dictionaries to JSON strings".
ProcessedValue(value) ==
  IF value.type = "dict" THEN Str(json_dumps(value)) ELSE value

\* get_all_images: main_images from the images column of the row.
MainImages(column) ==
  IF column.type = "None" THEN <<>>
  ELSE IF column.type = "str" /\ column.text = <<>> THEN <<>>
  ELSE IF column.type = "str"
    THEN IF json_loads(column.text).key = "image_urls"
           THEN json_loads(column.text).value
           ELSE <<>>
  ELSE <<"TypeError">>

BuildRecord ==
  /\ img_pc = "scraped"
  /\ img_field' = ImagesField(img_program, image_urls)
  /\ img_pc' = "posted"
  /\ UNCHANGED <<img_program, image_urls, img_column, main_images>>
  /\ UNCHANGED exceptImg

InsertRecord ==
  /\ img_pc = "posted"
  /\ img_column' = ProcessedValue(img_field)
  /\ img_pc' = "stored"
  /\ UNCHANGED <<img_program, image_urls, img_field, main_images>>
  /\ UNCHANGED exceptImg

get_all_images ==
  /\ img_pc = "stored"
  /\ main_images' = MainImages(img_column)
  /\ img_pc' = "answered"
  /\ UNCHANGED <<img_program, image_urls, img_field, img_column>>
  /\ UNCHANGED exceptImg

ImgInit ==
  /\ RunIdle
  /\ DBIdle
  /\ ScanIdle
  /\ NavIdle
  /\ HistIdle
  /\ LoadIdle
  /\ UnitIdle
  /\ img_program \in Scrapers
  /\ image_urls \in ImageLists
  /\ img_field = [type |-> "None"]
  /\ img_column = [type |-> "None"]
  /\ main_images = <<>>
  /\ img_pc = "scraped"

ImgNext == BuildRecord \/ InsertRecord \/ get_all_images

SpecImages == ImgInit /\ [][ImgNext]_vars

(***************************************************************************)
(* get_mass_measurement_unit (the same function in Flipkart, Gopal,        *)
(* Jiomart and Zepto).  A text is the sequence of its characters.          *)
(***************************************************************************)
GramVariations ==
  <<<<"g", "r", "a", "m">>,
    <<"g", "r", "a", "m", "s">>,
    <<"k", "i", "l", "o", "g", "r", "a", "m">>,
    <<"k", "i", "l", "o", "g", "r", "a", "m", "s">>,
    <<"k", "g">>,
    <<"g">>>>

MillilitreVariations ==
  <<<<"m", "l">>,
    <<"m", "i", "l", "l", "i", "l", "i", "t", "r", "e">>,
    <<"m", "i", "l", "l", "i", "l", "i", "t", "r", "e", "s">>,
    <<"m", "i", "l", "l", "i", "l", "i", "t", "e", "r">>,
    <<"m", "i", "l", "l", "i", "l", "i", "t", "e", "r", "s">>,
    <<"l", "i", "t", "e", "r">>,
    <<"l", "i", "t", "r", "e">>,
    <<"l", "i", "t", "e", "r", "s">>,
    <<"l", "i", "t", "r", "e", "s">>,
    <<"l">>>>

\* Unit texts: every text of up to MaxUnitLen characters of a small alphabet,
\* and unit texts found on product pages.
Units ==
  SeqsUpTo({"g", "l", "k", "G", "1", " "}, MaxUnitLen) \cup
  {<<"6", " ", "e", "g", "g", "s">>,
   <<"5", "0", "0", " ", "m", "l">>,
   <<"1", ".", "5", " ", "K", "g">>,
   <<"1", " ", "b", "o", "t", "t", "l", "e">>,
   <<"2", "5", "0", " ", "g", "r", "a", "m", "s">>,
   <<"2", " ", "l", "i", "t", "r", "e", "s">>,
   <<"1", "2", " ", "p", "c", "s">>,
   <<"1", ".">>}

\* Number of leading digits of text.
RECURSIVE DigitRun(_)
DigitRun(text) ==
  IF text # <<>> /\ text[1] \in {"0", "1", "2", "5", "6"}
    THEN 1 + DigitRun(Tail(text))
    ELSE 0

\* Length of the match of \d+(\.\d+)? at the start of text (0: no match).
NumberMatch(text) ==
  LET n == DigitRun(text)
      rest == SubSeq(text, n + 1, Len(text))
      f == IF rest # <<>> /\ rest[1] = "." THEN DigitRun(Tail(rest)) ELSE 0
  IN IF n = 0 THEN 0 ELSE IF f > 0 THEN n + 1 + f ELSE n

\* re.sub(r'\d+(\.\d+)?', '', text)
RECURSIVE RemoveNumbers(_)
RemoveNumbers(text) ==
  IF text = <<>> THEN <<>>
  ELSE IF NumberMatch(text) > 0
    THEN RemoveNumbers(SubSeq(text, NumberMatch(text) + 1, Len(text)))
  ELSE <<text[1]>> \o RemoveNumbers(Tail(text))

\* str.strip()
RECURSIVE Strip(_)
Strip(text) ==
  IF text # <<>> /\ text[1] = " " THEN Strip(Tail(text))
  ELSE IF text # <<>> /\ text[Len(text)] = " "
    THEN Strip(SubSeq(text, 1, Len(text) - 1))
  ELSE text

\* str.lower()
Lower(text) ==
  [n \in 1..Len(text) |->
     CASE text[n] = "G" -> "g" [] text[n] = "K" -> "k" [] OTHER -> text[n]]

CleanedUnit(text) == Lower(Strip(RemoveNumbers(text)))

\* Python's `var in cleaned_unit` on str: var occurs somewhere in the text.
In(var, text) ==
  \E n \in 1..(Len(text) - Len(var) + 1) : SubSeq(text, n, n + Len(var) - 1) = var

get_mass_measurement_unit(text) ==
  IF text = <<>> THEN "None"
  ELSE IF \E n \in 1..Len(GramVariations) : In(GramVariations[n], CleanedUnit(text))
    THEN "GRAMS"
  ELSE IF \E n \in 1..Len(MillilitreVariations) :
            In(MillilitreVariations[n], CleanedUnit(text))
    THEN "MILLILITRE"
  ELSE "None"

GetUnit ==
  /\ unit_pc = "call"
  /\ unit_result' = get_mass_measurement_unit(unit)
  /\ unit_pc' = "returned"
  /\ UNCHANGED unit
  /\ UNCHANGED exceptUnit

UnitInit ==
  /\ RunIdle
  /\ DBIdle
  /\ ScanIdle
  /\ NavIdle
  /\ HistIdle
  /\ LoadIdle
  /\ ImgIdle
  /\ unit \in Units
  /\ unit_result = "none"
  /\ unit_pc = "call"

SpecUnit == UnitInit /\ [][GetUnit]_vars

(***************************************************************************)
(* Claims about a run.                                                     *)
(***************************************************************************)

\* C1 (as stated): for any product URL at most 3 driver.get calls are made
\* in total by get_product_details and the _safe_get it calls.
C1_AtMostThreeLoads == \A u \in Urls : loads[u] <= MAX_RETRIES

\* C1 (amended): each _safe_get call makes at most MAX_RETRIES driver.get
\* calls and get_product_details calls _safe_get at most MAX_RETRIES times, so
\* a URL is loaded at most MAX_RETRIES * MAX_RETRIES = 9 times, and at most
\* MAX_RETRIES times per attempt of get_product_details.
C1_LoadsBounded ==
  /\ sg_attempt < MAX_RETRIES
  /\ \A u \in Urls :
       /\ loads[u] <= MAX_RETRIES * MAX_RETRIES
       /\ returned[u] >= 0 => loads[u] <= MAX_RETRIES * (returned[u] + 1)

\* C1 witness: a URL was given up after 9 driver.get calls.
C1_Witness == \E u \in Urls : returned[u] = MAX_RETRIES /\ loads[u] = MAX_RETRIES * MAX_RETRIES

\* C2 (as stated): a failure while handling one product URL does not stop the
\* run: when scrape_category has ended, every URL of the collected list was
\* handed to get_product_details.
C2_EveryUrlHanded == pc = "done" => handed = 1..Len(product_urls)

\* C3: when all MAX_RETRIES attempts of get_product_details failed, it returned
\* an empty result and no record for that URL is posted to the insert endpoint.
C3_EmptyWhenAllFail ==
  \A u \in Urls : returned[u] = MAX_RETRIES => scraped[u] = 0 /\ posts[u] = 0

\* C3 witness: the run went on past a URL all of whose attempts failed.
C3_Witness == \E u \in Urls : returned[u] = MAX_RETRIES /\ u \in handed /\ i > u

\* C4 (as stated): never more than one POST per product URL in a run.
C4_OnePostPerUrl == \A u \in Urls : posts[u] <= 1

\* C4 (amended): one POST per scraped record. A URL yields one record, except
\* in Gopal, where it yields one record per weight variant (1 to 4), each posted
\* once; no URL gets more POSTs than records, and once the loop has moved past a
\* URL every record scraped from it was posted exactly once.
C4_OnePostPerRecord ==
  \A u \in Urls :
    /\ posts[u] <= scraped[u]
    /\ scraped[u] <= (IF program = "Gopal" THEN GopalVariants ELSE 1)
    /\ (u \in handed /\ i > u) => posts[u] = scraped[u]

\* C4 witness: Gopal posted four variant records of one URL and moved on.
C4_Witness == \E u \in Urls : posts[u] = GopalVariants /\ u \in handed /\ i > u

\* C8 (as stated): whenever _safe_get sleeps after failed attempt n, the sleep
\* is one fixed base pause times n, whatever the attempt and the random draw.
C8_LinearBackoff ==
  slept.loop = "safe_get" =>
    \E base \in 1..(4 * SCROLL_PAUSE_TIME) :
      \A a \in RetryRange, r \in SafeGetRandom(program) :
        SafeGetSleep(program, a, r) = base * (a + 1)

\* C8 (amended): the sleep after failed attempt n is SCROLL_PAUSE_TIME * n in
\* Flipkart and Gopal (both retry loops); in Jiomart's _safe_get it is
\* 2^(n-1) plus a random 1..3, in Zepto's _safe_get a random 2..4, and in the
\* get_product_details loops of Jiomart and Zepto a random 2..5.
C8_BackoffByScraper ==
  /\ (slept.loop \in {"safe_get", "details"} /\ program \in {"Flipkart", "Gopal"})
       => slept.dur = SCROLL_PAUSE_TIME * slept.n
  /\ (slept.loop = "safe_get" /\ program = "Jiomart")
       => slept.dur - Pow2(slept.n - 1) \in 1..3
  /\ (slept.loop = "safe_get" /\ program = "Zepto") => slept.dur \in 2..4
  /\ (slept.loop = "details" /\ program \in {"Jiomart", "Zepto"}) => slept.dur \in 2..5

\* C8 witness: Flipkart's _safe_get slept after its second failed attempt.
C8_Witness == program = "Flipkart" /\ slept.loop = "safe_get" /\ slept.n = 2

\* C9: at every moment at most one browser instance of the run is open, and a
\* new instance is created only when none is open.
C9_SingleBrowser ==
  /\ [](browsers_open <= 1)
  /\ [][browsers_created' > browsers_created => browsers_open = 0]_vars

\* C9 witness: GoogleSearch.search opened a second browser after the first.
C9_Witness == browsers_created = 2 /\ browsers_open = 1

\* C22: when a scraper's scrape_category run has returned, every browser it
\* opened has been quit.
C22_BrowserQuitOnReturn ==
  (program \in Scrapers /\ pc = "done") => browsers_open = 0

(***************************************************************************)
(* Claims about the database API.                                          *)
(***************************************************************************)
HandleUpdate(req, dbo) ==
  CASE req.endpoint = "/barcode" -> update_barcode(req, dbo)
    [] req.endpoint = "/productinfo/update" -> update_product_info(req, dbo)
    [] req.endpoint = "/image/update" -> update_images(req, dbo)
    [] req.endpoint = "/added" -> get_all_is_uploaded_id(req, dbo)

\* C5: whenever POST /insert stores a row, its response is 200 with exactly the
\* keys id, message and success, id being the id of the row just created and
\* success being true.
C5_InsertResponse ==
  [][next_id' > next_id =>
       /\ DOMAIN rows' = DOMAIN rows \cup {next_id}
       /\ response'.endpoint = "/insert"
       /\ response'.code = 200
       /\ DOMAIN response'.body = {"id", "message", "success"}
       /\ response'.body.id = next_id
       /\ response'.body.success = TRUE]_vars

\* C5 witness: a second record was inserted and the response carries its id.
C5_Witness ==
  /\ response.endpoint = "/insert"
  /\ response.code = 200
  /\ response.body.id = 2
  /\ 2 \in DOMAIN rows

C7_StatusInChoices == \A id \in DOMAIN rows : rows[id].status \in StatusChoices

\* C7 (amended): a record's status is the one its /insert body carried, or none
\* when the body carried none (nothing checks it against the seven choices);
\* afterwards it stays as it is or becomes imageprocessed.
C7_StatusAsInserted ==
  [][/\ \A id \in DOMAIN rows :
          /\ id \in DOMAIN rows'
          /\ rows'[id].status \in {rows[id].status, "imageprocessed"}
     /\ next_id' > next_id =>
          \A body \in InsertBodies, dbo \in DbOutcomes :
            insert_data(body, dbo) =>
              rows'[next_id].status =
                IF "status" \in DOMAIN body.data THEN body.data.status ELSE NULL]_vars

\* C7 witness: the table holds a record inserted with a status outside the
\* choices, one inserted without a status, or one set to imageprocessed.
C7_Witness ==
  /\ DOMAIN rows = {1, 2}
  /\ rows[1].status = "imageprocessed"
  /\ rows[2].status \notin StatusChoices

(***************************************************************************)
(* The table after an update request the database carries out.             *)
(***************************************************************************)
UpdateFields(req) ==
  CASE req.endpoint = "/barcode" -> BarcodeFields(req)
    [] req.endpoint = "/productinfo/update" -> ProductInfoFields(req)
    [] req.endpoint = "/image/update" -> ImageFields(req)
    [] req.endpoint = "/added" -> IsUploadedFields(req)

Applied(tbl, req) ==
  IF req.endpoint = "/productinfo/update" /\ (req.id = <<>> \/ DOMAIN UpdateFields(req) = {})
    THEN tbl
    ELSE MySQLUpdate(tbl, UpdateFields(req), WhereId(req), "ok").tbl

\* C12: for any record, a /barcode update and an /image/update, or a
\* /productinfo/update that names no barcode, applied to the same id in either
\* order leave the table (and so the record) in the same final state.
C12_UpdatesCommute ==
  \A b \in BarcodeRequests :
    \A o \in ImageRequests \cup
              {q \in ProductInfoRequests : "barcode" \notin DOMAIN q.fields} :
      WhereId(b) = WhereId(o) =>
        Applied(Applied(rows, b), o) = Applied(Applied(rows, o), b)

\* C12 witness: record 1 got its images and then its barcode, and holds both.
C12_Witness ==
  /\ 1 \in DOMAIN rows
  /\ rows[1].front_img = "g1"
  /\ rows[1].status = "imageprocessed"
  /\ rows[1].barcode = "b2"
  /\ rows[1].brand_name = "n1"
  /\ response.endpoint = "/barcode"
  /\ response.code = 200

\* C11: GET /delete with the id of an existing record responds with success
\* (200), and afterwards no record with that id is in the table.
C11_DeleteRemoves ==
  [][\A id \in DOMAIN rows :
       delete_product(id) => (response'.code = 200 /\ id \notin DOMAIN rows')]_vars

\* C14: when the body of POST /insert is a non-empty JSON object and the insert
\* fails in the database (the INSERT is rejected, or no connection can be
\* made), the response is 500 'Failed to insert data into the database'.
C14_InsertFailureIs500 ==
  [][\A body \in InsertBodies, dbo \in {"down", "reject"} :
       (body.kind \in {"dict", "badcolumn"} /\ insert_data(body, dbo)) =>
         response' = Detail("/insert", 500, "Failed to insert data into the database")]_vars

\* C15: when MySQLDB._connect fails, insert_data returns 0, update_data returns
\* False, _execute_query and get_data return [], and none of them raises.
C15_ConnectFailureReturns ==
  /\ \A body \in InsertBodies :
       body.kind = "dict" =>
         (~MySQLInsert(body, "down").raised /\ MySQLInsert(body, "down").ret = 0)
  /\ \A req \in UpdateRequests :
       LET r == MySQLUpdate(rows, UpdateFields(req), WhereId(req), "down")
       IN  ~r.raised /\ r.ret = FALSE
  /\ \A id \in 1..(MaxRows + 1) :
       /\ MySQLExecuteQuery(rows, id, "down") = [raised |-> FALSE, ret |-> <<>>]
       /\ MySQLGetData(rows, id, "down") = [raised |-> FALSE, ret |-> <<>>]

\* C16: a request to /barcode, /image/update, /data or /added that leaves out
\* the id is rejected (no response reporting success), no record is modified
\* and none is read into the response.
C16_OmittedIdRejected ==
  [][\A req \in BarcodeRequests \cup ImageRequests \cup IDRequests, dbo \in DbOutcomes :
       (/\ req.id = <<>>
        /\ \/ HandleUpdate(req, dbo)
           \/ (req.endpoint = "/added" /\ get_all_data([req EXCEPT !.endpoint = "/data"], dbo)))
         => /\ rows' = rows
            /\ response'.code = 200 =>
                 ("success" \in DOMAIN response'.body /\ ~response'.body.success)]_vars

\* C17: after creation a record's status changes only in a step of
\* /image/update, which sets it to imageprocessed in the same update that writes
\* the four image references of the request; no step of /barcode,
\* /productinfo/update or /added changes a status.
C17_StatusOnlyByImageUpdate ==
  [][\A id \in DOMAIN rows :
       (id \in DOMAIN rows' /\ rows'[id].status # rows[id].status) =>
         /\ response'.endpoint = "/image/update"
         /\ rows'[id].status = "imageprocessed"
         /\ \E req \in ImageRequests :
              /\ update_images(req, "ok")
              /\ WhereId(req) = id
              /\ \A f \in DOMAIN req.fields : rows'[id][f] = req.fields[f]]_vars

\* C17 witness: record 1 was given a barcode and marked uploaded and still has
\* the status it was inserted with; record 2 just got its images and with them
\* the status imageprocessed.
C17_Witness ==
  /\ DOMAIN rows = {1, 2}
  /\ rows[1].barcode_exists = 1
  /\ rows[1].is_uploaded = 1
  /\ rows[1].status = "raw"
  /\ rows[2].status = "imageprocessed"
  /\ rows[2].ingredients_img = "g1"
  /\ response.endpoint = "/image/update"
  /\ response.code = 200

\* C18: for every stored record, barcode_exists is 1 whenever its barcode
\* column holds a value.
C18_BarcodeExistsWithBarcode ==
  \A id \in DOMAIN rows : rows[id].barcode # NULL => rows[id].barcode_exists = 1

(***************************************************************************)
(* Claims about _safe_get.                                                 *)
(***************************************************************************)
\* C13: whenever _safe_get(url) has returned True, driver.get(url) was invoked
\* on the attempt that succeeded and the browser shows url.
C13_NavigatedWhenTrue == sg_result = "True" => (sg_got /\ current_url = sg_url)

(***************************************************************************)
(* Claims about the scan history.                                          *)
(***************************************************************************)
\* C19: once a scan request has returned a scan_id, GET /scan/{scan_id} answers
\* 200 with that scan's result as long as its entry was not evicted.
C19_ReturnedScanIsFound ==
  [][\A s \in ScanIds :
       (/\ task[s] # "idle"
        /\ ~(/\ task[s] \in {"check", "keys", "min", "pop", "done", "raised"}
             /\ s \notin DOMAIN scan_history)
        /\ get_scan_result(s)) =>
         (scan_response'.code = 200 /\ scan_response'.result = task_result[s])]_vars

\* C21: a request to /scan/url, /scan/upload or /scan/{scan_id} whose X-API-Key
\* is missing or differs from the configured key is answered 403 with a fixed
\* body, whatever scan_history holds; it queues no task, computes no result
\* and leaves scan_history and the scanner's state as they were.
C21_NoKeyNoService ==
  [][\A api_key \in ApiKeys \ {API_KEY} :
       (\/ Depends(api_key, PostScanUrl)
        \/ Depends(api_key, PostScanUpload)
        \/ Depends(api_key, GetScan)) =>
         /\ scan_response' = Forbidden
         /\ UNCHANGED <<scan_history, task, task_result, scanVars>>]_vars

\* C21 witness: a request was refused while scan_history held an entry.
C21_Witness ==
  /\ scan_response = Forbidden
  /\ scan_history # <<>>

\* C20: whenever add_to_history calls have completed and none is running,
\* scan_history holds at most the limit of entries, and every entry has a
\* later timestamp than every scan that was added and is no longer held.
C20_HistoryKeepsMostRecent ==
  ((\E s \in ScanIds : task[s] = "done")
     /\ \A s \in ScanIds : task[s] \in {"idle", "queued", "done"}) =>
    /\ Cardinality(DOMAIN scan_history) <= MaxHistory
    /\ \A s \in DOMAIN scan_history, t \in ScanIds \ DOMAIN scan_history :
         task[t] = "done" => timestamp[t] < timestamp[s]

(***************************************************************************)
(* Claims about _load_all_products.                                        *)
(***************************************************************************)
\* C23: every call of _load_all_products returns.
C23_LoadTerminates == <>(load_pc = "done")

C25_UnitWordListed ==
  unit_pc = "returned" =>
    /\ unit_result = "GRAMS" =>
         \E n \in 1..Len(GramVariations) : GramVariations[n] = CleanedUnit(unit)
    /\ unit_result = "MILLILITRE" =>
         \E n \in 1..Len(MillilitreVariations) :
           MillilitreVariations[n] = CleanedUnit(unit)
    /\ unit_result \in {"GRAMS", "MILLILITRE", "None"}

(***************************************************************************)
(* Claims about the barcode scanner.                                       *)
(***************************************************************************)
\* C10 (as stated): for every image, process_image_async returns the same
\* barcode_data, barcode_type and status with use_deep_learning = True as with
\* use_deep_learning = False.
C10_DeepLearningNoOp ==
  (result_dl.status # "none" /\ result_trad.status # "none") =>
    /\ result_dl.barcode_data = result_trad.barcode_data
    /\ result_dl.barcode_type = result_trad.barcode_type
    /\ result_dl.status = result_trad.status

\* C10 (amended): the two calls return the same barcode_data, barcode_type and
\* status unless constructing the models raises (then use_deep_learning = True
\* returns status error) or pyzbar decodes a barcode in one of the contour
\* regions of the image (then it returns the first such barcode, of whatever
\* symbology, as a success of the deep-learning method).
C10_SameUnlessRegionDecodes ==
  (result_dl.status # "none" /\ result_trad.status # "none") =>
    IF result_dl.error = "model"
      THEN result_dl.status = "error" /\ result_dl.barcode_data = "None"
    ELSE IF image.load = "ok" /\ \E k \in 1..Len(image.regions) : image.regions[k] # None
      THEN LET k == CHOOSE n \in 1..Len(image.regions) :
                      /\ image.regions[n] # None
                      /\ \A q \in 1..(n - 1) : image.regions[q] = None
           IN  /\ result_dl.status = "success"
               /\ result_dl.method_used = "deep_learning"
               /\ result_dl.barcode_data = image.regions[k].data
               /\ result_dl.barcode_type = image.regions[k].type
      ELSE /\ result_dl.barcode_data = result_trad.barcode_data
           /\ result_dl.barcode_type = result_trad.barcode_type
           /\ result_dl.status = result_trad.status

\* C10 witness: both calls ran on an image with a QR code in its second region;
\* with use_deep_learning = True it is returned, with False nothing is found.
C10_Witness ==
  /\ Len(image.regions) = 2
  /\ image.regions[1] = None
  /\ result_dl.status = "success"
  /\ result_dl.barcode_type = "QRCODE"
  /\ result_trad.status = "no_barcode_found"

====
